---- MODULE Spec2Model ----
(***************************************************************************)
(* Model of CqlTransport (src/src/transport.rs): a framed transport over   *)
(* a non-blocking byte connection.  The read side fills `rd` from the      *)
(* connection and parses one message from its front; the write side queues *)
(* requests in `cmds` and drains them through the cursor `wr`.             *)
(*                                                                         *)
(* The connection (`inner`) and the codec (cql_protocol) are external to   *)
(* the transport.  The connection is modelled by the outcomes one call can *)
(* observe; the codec is modelled as a length-prefixed framing that meets  *)
(* the codec interface of spec.md section 6.                               *)
(***************************************************************************)
EXTENDS Integers, Sequences, FiniteSets, TLC

\* ---------------------------------------------------------------- bounds
\* longest message payload the codec frames
MaxPayload == 1
\* messages enqueued over one behaviour of the write side
MaxMsgs == 3
\* bytes delivered by the connection over one behaviour of the read side
MaxWire == 5
\* messages enqueued over one behaviour of the fair write side
MaxMsgsLive == 2
\* messages enqueued and bytes delivered over one behaviour of both sides
MaxMsgsBoth == 1
MaxWireBoth == 1

VARIABLES
    done,       \* transport.rs:32  set when inner.read returns Ok(0)
    rd,         \* transport.rs:34  buffered read data
    wr,         \* transport.rs:36  io::Cursor<Vec<u8>>: [buf, pos]
    cmds,       \* transport.rs:38  queued requests
    panicked,   \* the calling thread is unwinding from unimplemented!()
    sent,       \* connection: every byte accepted by inner.write, in order
    recv,       \* connection: every byte delivered by inner.read, in order
    enq,        \* history: every message passed to write(Message), in order
    returned,   \* history: every message returned by read(), in order
    lastOp,     \* the last call made on the transport
    lastRes,    \* what that call returned
    lastTerm,   \* how the last connection interaction of that call ended
    lastChunk,  \* bytes the connection delivered during the last read()
    parseBuf,   \* rd as handed to the parser by the last read()
    preDone,    \* done at entry of the last read()
    preWrite,   \* wr and cmds immediately before the last inner.write
    curOut,     \* bytes of the current cursor accepted by the connection
    malformedSeen, \* history: some read() returned a protocol error
    writeFailed, \* history: some write()/flush() returned an I/O error
    refillLost, \* history: most unwritten bytes a cursor had when flush replaced it
    pc,         \* "flush" while a flush() call is inside its loop, else "idle"
    tick        \* connection: parity of the inner.write calls made so far

rdVars == <<done, rd, recv, returned, lastChunk, parseBuf, preDone, malformedSeen>>
wrVars == <<wr, cmds, sent, enq, preWrite, curOut, writeFailed, refillLost>>
callVars == <<lastOp, lastRes, lastTerm, panicked>>
loopVars == <<pc, tick>>
vars == <<rdVars, wrVars, callVars, loopVars>>

\* ---------------------------------------------------------------- values
PayloadBytes == {0, 1}
\* a header above MaxPayload is not a valid frame length
WireBytes == PayloadBytes \cup (0..(MaxPayload + 1))
Messages == UNION {[1..n -> PayloadBytes] : n \in 0..MaxPayload}
Chunks(k) == UNION {[1..n -> WireBytes] : n \in 0..k}
UnsupportedFrames == {"MessageWithBody", "Body", "Error", "Done"}

NoMsg == <<>>
Ready(m) == [kind |-> "Ready", msg |-> m, err |-> "none"]
NotReady == [kind |-> "NotReady", msg |-> NoMsg, err |-> "none"]
Err(e) == [kind |-> "Err", msg |-> NoMsg, err |-> e]
Panic == [kind |-> "Panic", msg |-> NoMsg, err |-> "unimplemented"]
NoCall == [kind |-> "None", msg |-> NoMsg, err |-> "none"]

Drop(s, k) == SubSeq(s, k + 1, Len(s))
Take(s, k) == SubSeq(s, 1, k)
IsPrefix(p, s) == Len(p) <= Len(s) /\ Take(s, Len(p)) = p
IsProperPrefix(p, s) == Len(p) < Len(s) /\ Take(s, Len(p)) = p

\* ---------------------------------------------------------------- codec
\* Serialize: one length byte, then the payload.
get_packed_command(m) == <<Len(m)>> \o m

\* Parser::parse_value over a cursor on the buffer: the result and the
\* cursor position the parser stopped at.
parse_value(buf) ==
    IF buf = <<>> THEN [kind |-> "Incomplete", msg |-> NoMsg, pos |-> 0]
    ELSE IF buf[1] > MaxPayload THEN [kind |-> "Malformed", msg |-> NoMsg, pos |-> 1]
    ELSE IF Len(buf) < 1 + buf[1] THEN [kind |-> "Incomplete", msg |-> NoMsg, pos |-> Len(buf)]
    ELSE [kind |-> "Complete", msg |-> SubSeq(buf, 2, 1 + buf[1]), pos |-> 1 + buf[1]]

\* `e.into()`: a parse error as the Poll the call returns.
IntoPoll(res) ==
    IF res.kind = "Incomplete" THEN NotReady ELSE Err("Protocol")

\* the complete messages framed at the front of a byte stream, in order, up
\* to the first incomplete or malformed frame
RECURSIVE Frames(_)
Frames(buf) ==
    LET res == parse_value(buf)
    IN  IF res.kind = "Complete" THEN <<res.msg>> \o Frames(Drop(buf, res.pos)) ELSE <<>>

\* a byte stream whose framing meets no malformed frame
RECURSIVE WellFramed(_)
WellFramed(buf) ==
    LET res == parse_value(buf)
    IN  IF res.kind = "Complete" THEN WellFramed(Drop(buf, res.pos))
        ELSE res.kind = "Incomplete"

RECURSIVE Concat(_)
Concat(ms) == IF ms = <<>> THEN <<>> ELSE get_packed_command(Head(ms)) \o Concat(Tail(ms))

\* ---------------------------------------------------------------- write cursor
NewCursor(b) == [buf |-> b, pos |-> 0]
wr_pos(w) == w.pos
wr_remaining(w) == Len(w.buf) - wr_pos(w)

\* wr_is_empty that is off by one: a cursor with one byte left counts as empty
wr_is_empty_OffByOne(w) == wr_remaining(w) <= 1

wr_is_empty(w) == wr_remaining(w) = 0

\* the bytes not yet handed to the connection
Unsent == Drop(wr.buf, wr.pos) \o Concat(cmds)

\* ---------------------------------------------------------------- init
Init ==
    /\ done = FALSE
    /\ rd = <<>>
    /\ wr = NewCursor(<<>>)
    /\ cmds = <<>>
    /\ panicked = FALSE
    /\ sent = <<>>
    /\ recv = <<>>
    /\ enq = <<>>
    /\ returned = <<>>
    /\ lastOp = "new"
    /\ lastRes = NoCall
    /\ lastTerm = "None"
    /\ lastChunk = <<>>
    /\ parseBuf = <<>>
    /\ preDone = FALSE
    /\ preWrite = [wr |-> NewCursor(<<>>), cmds |-> <<>>]
    /\ curOut = <<>>
    /\ malformedSeen = FALSE
    /\ writeFailed = FALSE
    /\ refillLost = 0
    /\ pc = "idle"
    /\ tick = 0

\* ---------------------------------------------------------------- read side
\* ReadFill with the delivered bytes put in front of the buffered ones
ReadFill_Prepend(d, buf, chunk, term) ==
    IF d THEN [done |-> TRUE, rd |-> buf, err |-> FALSE, taken |-> <<>>, term |-> "None"]
    ELSE [done |-> (term = "Eof"), rd |-> chunk \o buf, err |-> (term = "IoError"),
          taken |-> chunk, term |-> term]

\* ReadFill whose loop does not test done before reading the connection
ReadFill_NoGuard(d, buf, chunk, term) ==
    [done |-> (d \/ term = "Eof"), rd |-> buf \o chunk, err |-> (term = "IoError"),
     taken |-> chunk, term |-> term]

\* ReadFill that absorbs every connection error, not only would-block
ReadFill_AbsorbError(d, buf, chunk, term) ==
    IF d THEN [done |-> TRUE, rd |-> buf, err |-> FALSE, taken |-> <<>>, term |-> "None"]
    ELSE [done |-> (term = "Eof"), rd |-> buf \o chunk, err |-> FALSE,
          taken |-> chunk, term |-> term]

\* The fill loop of read(): while !done, read_to_end appends what the
\* connection delivers (chunk) to rd until the connection ends the call with
\* would-block, end-of-stream or an I/O error (term).  With done set the
\* loop body never runs: nothing is taken from the connection (term "None").
ReadFill(d, buf, chunk, term) ==
    IF d THEN [done |-> TRUE, rd |-> buf, err |-> FALSE, taken |-> <<>>, term |-> "None"]
    ELSE [done |-> (term = "Eof"), rd |-> buf \o chunk, err |-> (term = "IoError"),
          taken |-> chunk, term |-> term]

\* ReadParse that empties the buffer after a parse instead of splitting it
ReadParse_Clear(buf) ==
    LET res == parse_value(buf)
        ret == IF res.kind = "Complete" THEN Ready(res.msg) ELSE IntoPoll(res)
    IN  [ret |-> ret, rd |-> IF ret = NotReady THEN buf ELSE <<>>]

\* ReadParse that leaves a parsed message in the buffer
ReadParse_NoConsume(buf) ==
    LET res == parse_value(buf)
        ret == IF res.kind = "Complete" THEN Ready(res.msg) ELSE IntoPoll(res)
    IN  [ret |-> ret, rd |-> buf]

\* The parse step of read(): parse one value from the front of rd; unless the
\* result is Ok(NotReady), keep only the bytes after the parser's cursor.
ReadParse(buf) ==
    LET res == parse_value(buf)
        pos == res.pos
        ret == IF res.kind = "Complete" THEN Ready(res.msg) ELSE IntoPoll(res)
    IN  [ret |-> ret, rd |-> IF ret = NotReady THEN buf ELSE Drop(buf, pos)]

\* read that resets the write side when the connection read fails
read_ResetOnError(chunk, term) ==
    /\ ~panicked
    /\ term \in {"WouldBlock", "Eof", "IoError"}
    /\ LET f == ReadFill(done, rd, chunk, term)
           p == ReadParse(f.rd)
       IN  /\ preDone' = done
           /\ done' = f.done
           /\ recv' = recv \o f.taken
           /\ lastChunk' = f.taken
           /\ lastTerm' = f.term
           /\ lastOp' = "read"
           /\ IF f.err
              THEN /\ rd' = f.rd
                   /\ lastRes' = Err("Io")
                   /\ parseBuf' = <<>>
                   /\ wr' = NewCursor(<<>>)
                   /\ cmds' = <<>>
                   /\ UNCHANGED <<returned, malformedSeen>>
              ELSE /\ rd' = p.rd
                   /\ lastRes' = p.ret
                   /\ parseBuf' = f.rd
                   /\ returned' = IF p.ret.kind = "Ready"
                                  THEN Append(returned, p.ret.msg) ELSE returned
                   /\ malformedSeen' = (malformedSeen \/ p.ret.kind = "Err")
                   /\ UNCHANGED <<wr, cmds>>
    /\ UNCHANGED <<sent, enq, preWrite, curOut, writeFailed, refillLost, panicked, loopVars>>

\* read that returns not ready at once when done is set, without parsing
read_DoneEarlyReturn(chunk, term) ==
    /\ ~panicked
    /\ term \in {"WouldBlock", "Eof", "IoError"}
    /\ LET f == ReadFill(done, rd, chunk, term)
           p == IF done THEN [ret |-> NotReady, rd |-> rd] ELSE ReadParse(f.rd)
       IN  /\ preDone' = done
           /\ done' = f.done
           /\ recv' = recv \o f.taken
           /\ lastChunk' = f.taken
           /\ lastTerm' = f.term
           /\ lastOp' = "read"
           /\ IF f.err
              THEN /\ rd' = f.rd
                   /\ lastRes' = Err("Io")
                   /\ parseBuf' = <<>>
                   /\ UNCHANGED <<returned, malformedSeen>>
              ELSE /\ rd' = p.rd
                   /\ lastRes' = p.ret
                   /\ parseBuf' = f.rd
                   /\ returned' = IF p.ret.kind = "Ready"
                                  THEN Append(returned, p.ret.msg) ELSE returned
                   /\ malformedSeen' = (malformedSeen \/ p.ret.kind = "Err")
    /\ UNCHANGED <<wrVars, panicked, loopVars>>

read(chunk, term) ==
    /\ ~panicked
    /\ term \in {"WouldBlock", "Eof", "IoError"}
    /\ LET f == ReadFill(done, rd, chunk, term)
           p == ReadParse(f.rd)
       IN  /\ preDone' = done
           /\ done' = f.done
           /\ recv' = recv \o f.taken
           /\ lastChunk' = f.taken
           /\ lastTerm' = f.term
           /\ lastOp' = "read"
           /\ IF f.err
              THEN /\ rd' = f.rd
                   /\ lastRes' = Err("Io")
                   /\ parseBuf' = <<>>
                   /\ UNCHANGED <<returned, malformedSeen>>
              ELSE /\ rd' = p.rd
                   /\ lastRes' = p.ret
                   /\ parseBuf' = f.rd
                   /\ returned' = IF p.ret.kind = "Ready"
                                  THEN Append(returned, p.ret.msg) ELSE returned
                   /\ malformedSeen' = (malformedSeen \/ p.ret.kind = "Err")
    /\ UNCHANGED <<wrVars, panicked, loopVars>>

\* ---------------------------------------------------------------- write side
\* What one inner.write(buf) can do: accept n >= 1 of the bytes offered,
\* report would-block, or fail.  An empty buf is accepted as Ok(0).
WriteOutcomes(rem) ==
    IF rem = 0 THEN {[kind |-> "Ok", n |-> 0]}
    ELSE {[kind |-> "Ok", n |-> n] : n \in 1..rem}
         \cup {[kind |-> "WouldBlock", n |-> 0], [kind |-> "IoError", n |-> 0]}

\* the bytes the connection takes from buf under outcome out
InnerWrite(buf, out) == IF out.kind = "Ok" THEN Take(buf, out.n) ELSE <<>>

\* wr_flush that treats every accepted write as a write of the whole tail
wr_flush_AssumeFull(t, out) ==
    LET pos == t.wr.pos
        buf == Drop(t.wr.buf, pos)
        acc == InnerWrite(buf, out)
        t1 == [t EXCEPT !.sent = @ \o acc, !.curOut = @ \o acc, !.io = out.kind]
    IN  IF out.kind = "Ok"
        THEN [t |-> [t1 EXCEPT !.wr = [buf |-> t.wr.buf, pos |-> Len(t.wr.buf)]], ret |-> "true"]
        ELSE IF out.kind = "WouldBlock"
        THEN [t |-> t1, ret |-> "false"]
        ELSE [t |-> t1, ret |-> "Err"]

\* wr_flush that rewinds the cursor when the connection would block
wr_flush_Rewind(t, out) ==
    LET pos == t.wr.pos
        buf == Drop(t.wr.buf, pos)
        acc == InnerWrite(buf, out)
        t1 == [t EXCEPT !.sent = @ \o acc, !.curOut = @ \o acc, !.io = out.kind]
    IN  IF out.kind = "Ok"
        THEN [t |-> [t1 EXCEPT !.wr = [buf |-> t.wr.buf, pos |-> out.n + pos]], ret |-> "true"]
        ELSE IF out.kind = "WouldBlock"
        THEN [t |-> [t1 EXCEPT !.wr = [buf |-> t.wr.buf, pos |-> 0]], ret |-> "false"]
        ELSE [t |-> t1, ret |-> "Err"]

\* wr_flush that reports Ok(false) after a write the connection accepted
wr_flush_OkFalse(t, out) ==
    LET pos == t.wr.pos
        buf == Drop(t.wr.buf, pos)
        acc == InnerWrite(buf, out)
        t1 == [t EXCEPT !.sent = @ \o acc, !.curOut = @ \o acc, !.io = out.kind]
    IN  IF out.kind = "Ok"
        THEN [t |-> [t1 EXCEPT !.wr = [buf |-> t.wr.buf, pos |-> out.n + pos]], ret |-> "false"]
        ELSE IF out.kind = "WouldBlock"
        THEN [t |-> t1, ret |-> "false"]
        ELSE [t |-> t1, ret |-> "Err"]

\* wr_flush: offer the unwritten tail of wr to the connection and advance
\* the position by the count accepted.
wr_flush(t, out) ==
    LET pos == t.wr.pos
        buf == Drop(t.wr.buf, pos)
        acc == InnerWrite(buf, out)
        t1 == [t EXCEPT !.sent = @ \o acc, !.curOut = @ \o acc, !.io = out.kind]
    IN  IF out.kind = "Ok"
        THEN [t |-> [t1 EXCEPT !.wr = [buf |-> t.wr.buf, pos |-> out.n + pos]], ret |-> "true"]
        ELSE IF out.kind = "WouldBlock"
        THEN [t |-> t1, ret |-> "false"]
        ELSE [t |-> t1, ret |-> "Err"]

\* push that inserts at the front of the queue
cmds_push_Front(q, m) == <<m>> \o q

\* self.cmds.push(cmd)
cmds_push(q, m) == Append(q, m)

\* Refill that takes the newest command instead of the oldest
Refill_Lifo(t) ==
    LET cmd == t.cmds[Len(t.cmds)]
    IN  [t EXCEPT !.cmds = Take(t.cmds, Len(t.cmds) - 1),
                  !.wr = NewCursor(get_packed_command(cmd)),
                  !.curOut = <<>>,
                  !.lost = IF wr_remaining(t.wr) > @ THEN wr_remaining(t.wr) ELSE @]

\* flush: take the next command off the queue and make it the cursor
Refill(t) ==
    LET cmd == t.cmds[1]
    IN  [t EXCEPT !.cmds = Tail(t.cmds),
                  !.wr = NewCursor(get_packed_command(cmd)),
                  !.curOut = <<>>,
                  !.lost = IF wr_remaining(t.wr) > @ THEN wr_remaining(t.wr) ELSE @]

\* FlushComplete that looks at the queue only, not at the cursor
FlushComplete_QueueOnly(t) == t.cmds = <<>>

\* flush returns Ready at the top of an iteration with nothing left to write
FlushComplete(t) == wr_is_empty(t.wr) /\ t.cmds = <<>>

\* the cursor an iteration of flush writes from: refilled if it was empty
FlushCursor(t) ==
    LET t1 == IF wr_is_empty(t.wr) THEN Refill(t) ELSE t
    IN  [t1 EXCEPT !.pre = [wr |-> t1.wr, cmds |-> t1.cmds]]

\* The loop of flush(): every way one call can end, with the state it leaves.
\* (A connection that accepts 0 bytes of a non-empty buffer on every write
\* is left to flush_iter: under it the call has no end.)
RECURSIVE flush_loop(_)
flush_loop(t) ==
    IF FlushComplete(t)
    THEN {[t |-> t, ret |-> Ready(NoMsg)]}
    ELSE LET t2 == FlushCursor(t)
         IN  UNION { LET r == wr_flush(t2, out)
                     IN  IF r.ret = "true" THEN flush_loop(r.t)
                         ELSE IF r.ret = "false" THEN {[t |-> r.t, ret |-> NotReady]}
                         ELSE {[t |-> r.t, ret |-> Err("Io")]}
                   : out \in WriteOutcomes(wr_remaining(t2.wr)) }

\* the write-side state a flush() call works on
FlushState(q) ==
    [cmds |-> q, wr |-> wr, sent |-> sent, curOut |-> curOut,
     pre |-> preWrite, io |-> "None", lost |-> refillLost]

FlushFrom(q, op) ==
    \E r \in flush_loop(FlushState(q)) :
        /\ cmds' = r.t.cmds
        /\ wr' = r.t.wr
        /\ sent' = r.t.sent
        /\ curOut' = r.t.curOut
        /\ preWrite' = r.t.pre
        /\ refillLost' = r.t.lost
        /\ lastTerm' = r.t.io
        /\ lastRes' = r.ret
        /\ writeFailed' = (writeFailed \/ r.ret = Err("Io"))
        /\ lastOp' = op

flush ==
    /\ ~panicked
    /\ FlushFrom(cmds, "flush")
    /\ UNCHANGED <<rdVars, enq, panicked, loopVars>>

\* write(Frame::Message(cmd))
write(cmd) ==
    /\ ~panicked
    /\ enq' = Append(enq, cmd)
    /\ FlushFrom(cmds_push(cmds, cmd), "write")
    /\ UNCHANGED <<rdVars, panicked, loopVars>>

\* write(frame) for the four other variants: unimplemented!()
write_unsupported(frame) ==
    /\ ~panicked
    /\ frame \in UnsupportedFrames
    /\ panicked' = TRUE
    /\ lastOp' = "write_unsupported"
    /\ lastRes' = Panic
    /\ lastTerm' = "None"
    /\ UNCHANGED <<rdVars, wrVars, loopVars>>

poll_write_result == Ready(NoMsg)

poll_write ==
    /\ ~panicked
    /\ lastOp' = "poll_write"
    /\ lastRes' = poll_write_result
    /\ lastTerm' = "None"
    /\ UNCHANGED <<rdVars, wrVars, panicked, loopVars>>

\* ---------------------------------------------------------------- flush, one iteration at a time
\* What one inner.write(buf) can return, the count 0 for a non-empty buf
\* included (io::Write allows it).
WriteOutcomesAny(rem) == WriteOutcomes(rem) \cup {[kind |-> "Ok", n |-> 0]}

\* a call of flush() reaches the top of its loop
flush_enter ==
    /\ ~panicked
    /\ pc = "idle"
    /\ pc' = "flush"
    /\ lastOp' = "flush"
    /\ lastRes' = NoCall
    /\ lastTerm' = "None"
    /\ UNCHANGED <<rdVars, wrVars, panicked, tick>>

\* a call of write(Frame::Message(cmd)) pushes cmd and enters flush()
write_enter(cmd) ==
    /\ ~panicked
    /\ pc = "idle"
    /\ cmds' = cmds_push(cmds, cmd)
    /\ enq' = Append(enq, cmd)
    /\ pc' = "flush"
    /\ lastOp' = "write"
    /\ lastRes' = NoCall
    /\ lastTerm' = "None"
    /\ UNCHANGED <<rdVars, wr, sent, preWrite, curOut, writeFailed, refillLost, panicked, tick>>

\* the outcomes the connection can give to the iteration about to run
IterOutcomes ==
    IF FlushComplete(FlushState(cmds)) THEN {[kind |-> "None", n |-> 0]}
    ELSE WriteOutcomesAny(wr_remaining(FlushCursor(FlushState(cmds)).wr))

\* one iteration of the loop of flush(): return Ready when nothing is left,
\* else refill an empty cursor, call wr_flush, and go round again on Ok(true)
flush_iter(out) ==
    /\ pc = "flush"
    /\ IF FlushComplete(FlushState(cmds))
       THEN /\ pc' = "idle"
            /\ lastRes' = Ready(NoMsg)
            /\ UNCHANGED <<wrVars, lastTerm, tick>>
       ELSE LET r == wr_flush(FlushCursor(FlushState(cmds)), out)
            IN  /\ cmds' = r.t.cmds
                /\ wr' = r.t.wr
                /\ sent' = r.t.sent
                /\ curOut' = r.t.curOut
                /\ preWrite' = r.t.pre
                /\ refillLost' = r.t.lost
                /\ lastTerm' = r.t.io
                /\ tick' = 1 - tick
                /\ writeFailed' = (writeFailed \/ r.ret = "Err")
                /\ pc' = IF r.ret = "true" THEN "flush" ELSE "idle"
                /\ lastRes' = IF r.ret = "true" THEN lastRes
                              ELSE IF r.ret = "false" THEN NotReady ELSE Err("Io")
                /\ UNCHANGED enq
    /\ UNCHANGED <<rdVars, lastOp, panicked>>

\* ---------------------------------------------------------------- specifications
ReadStep == \E chunk \in Chunks(MaxWire - Len(recv)), term \in {"WouldBlock", "Eof", "IoError"} :
                read(chunk, term)
WriteStep == Len(enq) < MaxMsgs /\ \E cmd \in Messages : write(cmd)
UnsupportedStep == \E frame \in UnsupportedFrames : write_unsupported(frame)

NextRead == ReadStep
NextWrite == WriteStep \/ flush \/ UnsupportedStep \/ poll_write

FlushEnterStep == flush_enter
WriteEnterStep == Len(enq) < MaxMsgs /\ \E cmd \in Messages : write_enter(cmd)
FlushIterStep == \E out \in IterOutcomes : flush_iter(out)
NextFlush == FlushEnterStep \/ WriteEnterStep \/ FlushIterStep

\* the loop of flush() step by step: a call that is inside the loop keeps
\* running
SpecFlush == Init /\ [][NextFlush]_vars /\ WF_vars(FlushIterStep)

\* the outcomes of a connection that does not fail and, when it accepts,
\* accepts at least one byte
LiveIterOutcomes ==
    IF FlushComplete(FlushState(cmds)) THEN {[kind |-> "None", n |-> 0]}
    ELSE WriteOutcomes(wr_remaining(FlushCursor(FlushState(cmds)).wr))
             \ {[kind |-> "IoError", n |-> 0]}

LiveWriteEnterStep == Len(enq) < MaxMsgsLive /\ \E cmd \in Messages : write_enter(cmd)
LiveIterStep == \E out \in LiveIterOutcomes : flush_iter(out)
\* the caller calls flush() again after a call returned not ready
FlushRetry == lastRes = NotReady /\ flush_enter
\* an iteration in which the connection does not block
IterProgress == \E out \in LiveIterOutcomes : out.kind # "WouldBlock" /\ flush_iter(out)
NextLive == FlushEnterStep \/ LiveWriteEnterStep \/ LiveIterStep

\* the write side under a caller that calls flush() again after not ready
\* and a connection that never fails and does not block forever
SpecLive == Init /\ [][NextLive]_vars /\ WF_vars(FlushRetry) /\ SF_vars(IterProgress)

BothReadStep == \E chunk \in Chunks(MaxWireBoth - Len(recv)), term \in {"WouldBlock", "Eof", "IoError"} :
                    read(chunk, term)
BothWriteStep == Len(enq) < MaxMsgsBoth /\ \E cmd \in Messages : write(cmd)
Next == BothReadStep \/ BothWriteStep \/ flush \/ UnsupportedStep \/ poll_write

\* both sides, their calls interleaved in any order
Spec == Init /\ [][Next]_vars

\* the read side alone
SpecRead == Init /\ [][NextRead]_vars
\* the write side alone
SpecWrite == Init /\ [][NextWrite]_vars

\* ---------------------------------------------------------------- properties
IsWriteCall == lastOp \in {"write", "flush"}

\* C1: the bytes accepted by the connection are at all times a prefix of the
\* concatenation of the serialized messages in enqueue order, and when
\* write()/flush() reports fully flushed they are the whole concatenation.
C1_SentIsFifoPrefix ==
    /\ IsPrefix(sent, Concat(enq))
    /\ (IsWriteCall /\ lastRes.kind = "Ready") => sent = Concat(enq)

\* several different messages drained through a partially written cursor
C1_Witness ==
    /\ IsWriteCall /\ lastRes.kind = "Ready"
    /\ Len(enq) >= 2 /\ enq[1] # enq[2]
    /\ preWrite.wr.pos > 0
    /\ sent = Concat(enq)

\* C2: while the bytes delivered so far are an incomplete prefix of a
\* serialized message, a read() that ended on would-block returns not ready
\* and has returned nothing; once all of its bytes have been delivered the
\* message has been returned, exactly once and exactly as serialized.
C2_ChunkedDelivery ==
    \A m \in Messages :
        (lastOp = "read" /\ lastTerm = "WouldBlock") =>
            /\ IsProperPrefix(recv, get_packed_command(m)) =>
                   (lastRes = NotReady /\ returned = <<>> /\ rd = recv)
            /\ recv = get_packed_command(m) =>
                   (returned = <<m>> /\ rd = <<>>)

\* a message whose last byte arrived alone, after an earlier chunk
C2_Witness ==
    /\ lastOp = "read" /\ lastTerm = "WouldBlock"
    /\ lastRes.kind = "Ready" /\ Len(lastRes.msg) = MaxPayload
    /\ recv = get_packed_command(lastRes.msg)
    /\ Len(lastChunk) = 1

\* C3: read() with Closed set and a non-empty incomplete prefix in the buffer
\* returns a truncation error (never not ready, never a message).
C3_TruncationIsError ==
    (lastOp = "read" /\ done /\ lastRes.err # "Io"
        /\ parseBuf # <<>> /\ parse_value(parseBuf).kind = "Incomplete")
    => lastRes.kind = "Err"

\* C4: a read() entered with Closed set and an empty buffer reports
\* closed/end-of-stream (not not-ready, not a message).
C4_ClosedIsReported ==
    (lastOp = "read" /\ preDone /\ parseBuf = <<>>)
    => (lastRes.kind = "Err" /\ lastRes.err = "Closed")

\* C5: write() of a frame other than Message returns a recoverable
\* unsupported-frame failure and leaves the queue and the cursor usable.
C5_UnsupportedIsRecoverable ==
    lastOp = "write_unsupported" =>
        (lastRes.kind = "Err" /\ lastRes.err = "Unsupported" /\ ~panicked)

\* C6: when read() returns a message for which the codec consumed K bytes,
\* the buffer is the parsed buffer without its first K bytes.
C6_ConsumeExactlyK ==
    (lastOp = "read" /\ lastRes.kind = "Ready") =>
        LET res == parse_value(parseBuf)
        IN  /\ res.kind = "Complete"
            /\ res.msg = lastRes.msg
            /\ rd = Drop(parseBuf, res.pos)
            /\ parseBuf = get_packed_command(lastRes.msg) \o rd

\* a message returned with bytes of a later message left in the buffer
C6_Witness ==
    /\ lastOp = "read" /\ lastRes.kind = "Ready"
    /\ Len(lastRes.msg) >= 1
    /\ rd # <<>>

\* C7: the bytes of one cursor accepted by the connection are the cursor's
\* buffer up to its position, each once and in order, so that an empty cursor
\* has had exactly its buffer accepted.
C7_CursorBytesOnce ==
    /\ curOut = Take(wr.buf, wr.pos)
    /\ wr_is_empty(wr) => (curOut = wr.buf /\ Len(curOut) = Len(wr.buf))

\* a cursor drained by a last write that started mid-buffer
C7_Witness ==
    /\ Len(wr.buf) >= 2 /\ wr_is_empty(wr)
    /\ preWrite.wr.buf = wr.buf /\ preWrite.wr.pos = Len(wr.buf) - 1
    /\ curOut = wr.buf

\* C8: when the last connection write of write()/flush() reported
\* would-block, the call returned not ready and the cursor and the queue are
\* what they were immediately before that write.
C8_WouldBlockPreserves ==
    (IsWriteCall /\ lastTerm = "WouldBlock") =>
        /\ lastRes = NotReady
        /\ wr = preWrite.wr
        /\ cmds = preWrite.cmds

\* would-block on a partially written cursor with a message still queued
C8_Witness ==
    /\ IsWriteCall /\ lastTerm = "WouldBlock"
    /\ wr.pos > 0 /\ ~wr_is_empty(wr)
    /\ cmds # <<>>

\* C9: a Malformed parse makes read() return an error, and after it no
\* read() returns a message.
C9_MalformedIsTerminal ==
    /\ (lastOp = "read" /\ lastRes.err # "Io" /\ parse_value(parseBuf).kind = "Malformed")
           => lastRes.kind = "Err"
    /\ (lastOp = "read" /\ malformedSeen) => lastRes.kind # "Ready"

\* C10: poll_write reports ready in every state, and every write(Message)
\* puts its message behind everything still unsent, whatever the queue, the
\* cursor and the result of the flushes before it.
C10_WriteSideAlwaysReady ==
    [][ /\ lastOp' = "poll_write" => lastRes' = Ready(NoMsg)
        /\ enq' # enq =>
              /\ lastOp' = "write"
              /\ lastRes'.kind \in {"Ready", "NotReady", "Err"}
              /\ \E m \in Messages :
                    /\ enq' = Append(enq, m)
                    /\ sent' \o Unsent' = (sent \o Unsent) \o get_packed_command(m)
      ]_vars

\* a message accepted behind a pending cursor and a non-empty queue
C10_Witness ==
    /\ lastOp = "write" /\ lastRes = NotReady
    /\ Len(cmds) >= 2 /\ cmds[1] # cmds[2]
    /\ wr.pos > 0

\* C11: done is false initially, is set only by a read() whose connection
\* read reported end-of-stream, is never reset, and a read() entered with
\* done set takes nothing from the connection.
C11_ClosedIsOneWay ==
    /\ ~done
    /\ [][ /\ done => done'
           /\ (~done /\ done') => (lastOp' = "read" /\ lastTerm' = "Eof")
           /\ (done /\ lastOp' = "read") =>
                  (recv' = recv /\ lastTerm' = "None" /\ lastChunk' = <<>>)
         ]_vars

\* a read() entered with done set, after bytes had been delivered
C11_Witness ==
    /\ lastOp = "read" /\ preDone /\ done
    /\ lastTerm = "None"
    /\ recv # <<>>

\* C12: a connection read that fails with an I/O error makes read() return
\* that error, whatever is buffered; after would-block read() goes on to the
\* parse step and its result is the parse result.
C12_ReadErrorPropagates ==
    /\ (lastOp = "read" /\ lastTerm = "IoError") => lastRes = Err("Io")
    /\ (lastOp = "read" /\ lastTerm = "WouldBlock") =>
           /\ lastRes.err # "Io"
           /\ lastRes.kind = "Ready" <=> parse_value(parseBuf).kind = "Complete"
           /\ lastRes.kind = "NotReady" <=> parse_value(parseBuf).kind = "Incomplete"

\* an I/O error returned although a complete message is buffered
C12_Witness ==
    /\ lastOp = "read" /\ lastTerm = "IoError"
    /\ lastRes = Err("Io")
    /\ parse_value(rd).kind = "Complete"

\* C13: a connection write that fails with an I/O error makes write()/flush()
\* return that error, and after such a failure no write()/flush() call offers
\* anything to the connection again.
C13_WriteErrorIsTerminal ==
    [][ /\ (IsWriteCall' /\ lastTerm' = "IoError") => lastRes' = Err("Io")
        /\ (writeFailed /\ IsWriteCall') => (lastTerm' = "None" /\ sent' = sent)
      ]_vars

\* C14: the cursor position stays within its buffer, and flush replaces the
\* cursor only when it has no unwritten byte left.
C14_CursorWithinBuffer ==
    /\ 0 <= wr.pos /\ wr.pos <= Len(wr.buf)
    /\ refillLost = 0

\* the second message taken from the queue, partly written
C14_Witness ==
    /\ Len(enq) - Len(cmds) >= 2
    /\ 0 < wr.pos /\ wr.pos < Len(wr.buf)
    /\ cmds # <<>>

\* C15: write()/flush() returns fully flushed exactly when it leaves the
\* cursor and the queue empty, and returns not ready only with an unwritten
\* byte in the cursor.
C15_ReadyIffDrained ==
    IsWriteCall =>
        /\ lastRes.kind = "Ready" <=> (wr_is_empty(wr) /\ cmds = <<>>)
        /\ lastRes = NotReady => wr_remaining(wr) >= 1

\* not ready with the queue empty and the last message partly written
C15_Witness ==
    /\ IsWriteCall /\ lastRes = NotReady
    /\ cmds = <<>> /\ wr.pos > 0
    /\ Len(enq) >= 2

\* C16: a read() returns at most one message, the one framed at the front of
\* the buffered bytes, and removes exactly its bytes; on a well-framed wire
\* the messages returned so far, followed by the complete messages still
\* buffered, are the complete messages framed on the wire, in order.
C16_WireOrder ==
    /\ [](WellFramed(recv) => returned \o Frames(rd) = Frames(recv))
    /\ [][ lastOp' = "read" =>
             /\ Len(returned') <= Len(returned) + 1
             /\ lastRes'.kind = "Ready" =>
                    /\ returned' = Append(returned, lastRes'.msg)
                    /\ get_packed_command(lastRes'.msg) \o rd' = rd \o lastChunk'
             /\ lastRes'.kind # "Ready" => returned' = returned
         ]_vars

\* two different messages buffered by one ingestion, the second returned by
\* a later call that received nothing
C16_Witness ==
    /\ lastOp = "read" /\ lastRes.kind = "Ready"
    /\ lastChunk = <<>> /\ lastTerm = "WouldBlock"
    /\ Len(returned) = 2 /\ returned[1] # returned[2]
    /\ Len(recv) = Len(Concat(returned))

\* C20: the read() that sees end-of-stream keeps every buffered byte it does
\* not return as a message, and a read() entered with done set whose buffer
\* starts with a complete message returns that message and removes exactly
\* its bytes without reading the connection; it reports not ready only when
\* no complete message is left.
C20_DrainAfterClose ==
    [][ /\ (lastOp' = "read" /\ done' /\ lastRes'.kind = "Ready") =>
               get_packed_command(lastRes'.msg) \o rd' = rd \o lastChunk'
        /\ (lastOp' = "read" /\ done' /\ lastRes' = NotReady) =>
               (rd' = rd \o lastChunk' /\ parse_value(rd').kind # "Complete")
        /\ (lastOp' = "read" /\ done /\ parse_value(rd).kind = "Complete") =>
               /\ lastRes' = Ready(parse_value(rd).msg)
               /\ rd' = Drop(rd, parse_value(rd).pos)
               /\ returned' = Append(returned, parse_value(rd).msg)
               /\ recv' = recv /\ lastTerm' = "None"
      ]_vars

\* a second message returned by a read() entered with done set, with a third
\* still buffered
C20_Witness ==
    /\ lastOp = "read" /\ preDone /\ lastTerm = "None"
    /\ lastRes.kind = "Ready"
    /\ Len(returned) = 2
    /\ parse_value(rd).kind = "Complete"

\* C17: every flush() call returns: a call that is inside its loop leaves it
\* after finitely many connection writes, whatever the connection answers.
C17_FlushTerminates == (pc = "flush") ~> (pc = "idle")

\* C19: when flush() is called again after every not ready and the connection
\* never fails and eventually accepts a byte, whatever is unsent is
\* eventually written in full and a call reports fully flushed with the
\* queue empty.
C19_EventuallyFlushed ==
    (Unsent # <<>>) ~>
        (pc = "idle" /\ IsWriteCall /\ lastRes.kind = "Ready"
            /\ cmds = <<>> /\ wr_is_empty(wr) /\ sent = Concat(enq))

\* a flush() that resumed a partly written cursor and drained everything
C19_Witness ==
    /\ pc = "idle" /\ lastOp = "flush" /\ lastRes.kind = "Ready"
    /\ Len(enq) = MaxMsgsLive
    /\ preWrite.wr.pos > 0
    /\ Unsent = <<>> /\ sent = Concat(enq)

\* C18: read() leaves the queue, the cursor and the bytes sent as they were;
\* write(), flush() and poll_write leave the read buffer, done and the bytes
\* received as they were.
C18_SidesDoNotInterfere ==
    [][ /\ lastOp' = "read" =>
              (cmds' = cmds /\ wr' = wr /\ sent' = sent /\ enq' = enq)
        /\ lastOp' \in {"write", "flush", "write_unsupported", "poll_write"} =>
              (rd' = rd /\ done' = done /\ recv' = recv /\ returned' = returned)
      ]_vars

\* a read() that took bytes from the connection while the cursor was partly
\* written
C18_Witness ==
    /\ lastOp = "read" /\ lastChunk # <<>> /\ rd # <<>>
    /\ 0 < wr.pos /\ wr.pos < Len(wr.buf)
    /\ sent # <<>>

====
